---- MODULE Spec2Model ----
(***************************************************************************)
(* A model of two pieces of RIDE:                                          *)
(*   - robotide/editor/grid.py: GridEditor, its selection rectangle        *)
(*     (_GridCoordinates), the clipboard handlers and undo;                *)
(*   - robotide/action/actioninfo.py: the ActionInfoCollection parser.     *)
(* Text is modelled as sequences of one-character strings.                 *)
(***************************************************************************)
EXTENDS Integers, Sequences, FiniteSets, TLC

\* ------------------------------------------------------------------ bounds
\* Size of the toolkit grid the editor sits on.
NumberRows == 2
NumberCols == 2

\* The deepest edit history.
MaxHistory == 1

\* The deepest edit history where single cells are edited.
MaxDepth == 2

\* Cell values: '' (an empty cell) and one non-empty text.
Values == {"", "a"}

Rows == 0 .. (NumberRows - 1)
Cols == 0 .. (NumberCols - 1)
Coords == [row : Rows, col : Cols]

VARIABLES
    \* ---- GridEditor
    cells,            \* the toolkit grid's cell values, (row, col) -> text
    topleft,          \* _active_coords.topleft
    bottomright,      \* _active_coords.bottomright
    _edit_history,    \* GridEditor._edit_history, a stack of grid snapshots
    GRID_CLIPBOARD,   \* the shared clipboard slot
    editing,          \* IsCellEditControlShown()
    nt,               \* os.name == 'nt'
    \* ---- ActionInfoCollection(data, event_handler, container)
    data,             \* the DSL text
    event_handler,    \* the attribute names the handler object has
    container,        \* the caller's container, "None" when not given
    mac,              \* whether shortcuts are rendered for a Mac
    rows,             \* the lines data.splitlines() still to scan
    menu,             \* the local variable menu
    actions,          \* the local list actions
    pc,               \* "idle", "scan", "returned" or "raised"
    raised,           \* the exception that ended the call, "" when none
    lines,            \* the lines data was written from
    \* ---- _InsertionPoint and the menu it is asked about
    menuitems,        \* the labels of the menu's items, top to bottom
    _item,            \* _InsertionPoint._item
    _insert_before,   \* _InsertionPoint._insert_before
    index,            \* what get_index returned, -1 before any call
    \* ---- bookkeeping for stating the properties
    last,             \* the operation that produced this state, with its inputs
    seq,              \* progress through copy;select;paste or cut;undo
    seen              \* the grid and rectangle at the copy or cut that began seq

gridVars == <<cells, topleft, bottomright, _edit_history, GRID_CLIPBOARD, editing, nt>>
ghostVars == <<last, seq, seen>>
parseVars == <<data, event_handler, container, mac, rows, menu, actions, pc, raised, lines>>
menuVars == <<menuitems, _item, _insert_before, index>>
vars == <<gridVars, ghostVars, parseVars, menuVars>>

\* ------------------------------------------------------------ toolkit grid
InGrid(row, col) == row \in Rows /\ col \in Cols

EmptyGrid == [p \in Rows \X Cols |-> ""]

\* wxGrid.GetCellValue: the empty string for a cell the grid does not have.
GetCellValue(g, row, col) == IF InGrid(row, col) THEN g[<<row, col>>] ELSE ""

\* wxGrid.SetCellValue: a write to a cell the grid does not have is dropped.
SetCellValue(g, row, col, value) ==
    IF InGrid(row, col) THEN [g EXCEPT ![<<row, col>>] = value] ELSE g

write_cell(g, row, col, value) == SetCellValue(g, row, col, value)

\* ------------------------------------------------------- clipboard values
\* A Python value held by the slot: None, a string, or a list of rows.
None == [kind |-> "none", str |-> "", list |-> <<>>]
Str(s) == [kind |-> "str", str |-> s, list |-> <<>>]
List(l) == [kind |-> "list", str |-> "", list |-> l]

\* GRID_CLIPBOARD.set_contents(data): the slot then holds data.
set_contents(content) == List(content)

\* GRID_CLIPBOARD.get_contents(): what the slot holds.
get_contents(slot) == slot

\* Python's "not clipboard".
Falsy(c) ==
    \/ c.kind = "none"
    \/ c.kind = "str" /\ c.str = ""
    \/ c.kind = "list" /\ c.list = <<>>

\* -------------------------------------------------------- _GridCoordinates
Cell(row, col) == [row |-> row, col |-> col]

\* range(a, b + 1) as a sequence.
PyRange(a, b) == [i \in 1 .. (IF b >= a THEN b - a + 1 ELSE 0) |-> a + i - 1]

get_selected_rows(tl, br) == PyRange(tl.row, br.row)

get_selected_cols(tl, br) == PyRange(tl.col, br.col)

\* get_selected_cells stopping after the first selected column.
get_selected_cells_first_col(tl, br) ==
    LET rs == get_selected_rows(tl, br)
    IN [k \in 1 .. (IF get_selected_cols(tl, br) = <<>> THEN 0 ELSE Len(rs)) |->
            <<rs[k], tl.col>>]

\* [(row, col) for col in cols for row in rows]: column by column.
get_selected_cells(tl, br) ==
    LET rs == get_selected_rows(tl, br)
        cs == get_selected_cols(tl, br)
        n == Len(rs)
    IN [k \in 1 .. (Len(cs) * n) |->
            <<rs[((k - 1) % n) + 1], cs[((k - 1) \div n) + 1]>>]

\* set_from_single_selection keeping the old top-left corner.
single_selection_extends(tl, row, col) == <<tl, Cell(row, col)>>

\* set_from_single_selection: _set((event.Row, event.Col)), both corners on the
\* event's cell whatever the rectangle was.
set_from_single_selection(tl, row, col) == <<Cell(row, col), Cell(row, col)>>

\* _get_bounding_coordinates taking the columns from the event.
bounding_coordinates_event_cols(SelectedRows, evTopLeft, evBottomRight) ==
    IF SelectedRows # <<>>
    THEN <<Cell(SelectedRows[1], evTopLeft.col),
           Cell(SelectedRows[Len(SelectedRows)], evBottomRight.col)>>
    ELSE <<evTopLeft, evBottomRight>>

\* The (topleft, bottomright) pair a range-select event yields.
_get_bounding_coordinates(SelectedRows, evTopLeft, evBottomRight) ==
    IF SelectedRows # <<>>
    THEN <<Cell(SelectedRows[1], 0),
           Cell(SelectedRows[Len(SelectedRows)], NumberCols - 1)>>
    ELSE <<evTopLeft, evBottomRight>>

\* -------------------------------------------------------------- GridEditor
\* get_selected_content gathering column by column.
get_selected_content_by_col(g, tl, br) ==
    LET rs == get_selected_rows(tl, br)
        cs == get_selected_cols(tl, br)
    IN [j \in 1 .. Len(cs) |->
            [i \in 1 .. Len(rs) |-> GetCellValue(g, rs[i], cs[j])]]

get_selected_content(g, tl, br) ==
    LET rs == get_selected_rows(tl, br)
        cs == get_selected_cols(tl, br)
    IN [i \in 1 .. Len(rs) |->
            [j \in 1 .. Len(cs) |-> GetCellValue(g, rs[i], cs[j])]]

RECURSIVE ClearCells(_, _)
ClearCells(g, cs) ==
    IF cs = <<>> THEN g
    ELSE ClearCells(write_cell(g, Head(cs)[1], Head(cs)[2], ""), Tail(cs))

\* _clear_selected_cells clearing whole rows of the selection.
clear_selected_rows(g, tl, br) ==
    [p \in DOMAIN g |-> IF p[1] >= tl.row /\ p[1] <= br.row THEN "" ELSE g[p]]

_clear_selected_cells(g, tl, br) == ClearCells(g, get_selected_cells(tl, br))

\* PasteRow without "col += 1".
RECURSIVE PasteRowSameCol(_, _, _, _)
PasteRowSameCol(g, row, col, datarow) ==
    IF datarow = <<>> THEN g
    ELSE PasteRowSameCol(write_cell(g, row, col, Head(datarow)), row, col, Tail(datarow))

\* The inner loop of paste: one clipboard row, written left to right.
RECURSIVE PasteRow(_, _, _, _)
PasteRow(g, row, col, datarow) ==
    IF datarow = <<>> THEN g
    ELSE PasteRow(write_cell(g, row, col, Head(datarow)), row, col + 1, Tail(datarow))

\* PasteRows without "row += 1".
RECURSIVE PasteRowsSameRow(_, _, _, _)
PasteRowsSameRow(g, row, col, datarows) ==
    IF datarows = <<>> THEN g
    ELSE PasteRowsSameRow(PasteRow(g, row, col, Head(datarows)), row, col, Tail(datarows))

\* The outer loop of paste: the clipboard rows, written top to bottom.
RECURSIVE PasteRows(_, _, _, _)
PasteRows(g, row, col, datarows) ==
    IF datarows = <<>> THEN g
    ELSE PasteRows(PasteRow(g, row, col, Head(datarows)), row + 1, col, Tail(datarows))

\* paste_cells without "if not clipboard: return".
paste_cells_unguarded(g, clipboard, cell) ==
    IF clipboard.kind # "list"
    THEN write_cell(g, cell.row, cell.col, clipboard.str)
    ELSE [p \in DOMAIN g |-> ""]

\* paste() when no cell is being edited: the grid it leaves.
paste_cells(g, clipboard, cell) ==
    IF Falsy(clipboard) THEN g
    ELSE IF clipboard.kind # "list"
         THEN write_cell(g, cell.row, cell.col, clipboard.str)
         ELSE PasteRows(g, cell.row, cell.col, clipboard.list)

\* What self._write_data(snapshot) leaves in a grid that ClearGrid() emptied:
\* every cell rewritten from the snapshot.
_write_data(g, snapshot) ==
    [p \in Rows \X Cols |-> IF p \in DOMAIN snapshot THEN snapshot[p] ELSE g[p]]

\* The grid after ClearGrid().
ClearGrid(g) == [p \in DOMAIN g |-> ""]

\* undo_cells without "if self._edit_history".
undo_cells_unguarded(g, history) ==
    IF history # <<>> THEN _write_data(ClearGrid(g), history[Len(history)])
    ELSE ClearGrid(g)

\* undo(): the grid and the history it leaves.
undo_cells(g, history) ==
    IF history # <<>> THEN _write_data(ClearGrid(g), history[Len(history)]) ELSE g

\* undo_history reading the last snapshot without pop().
undo_history_kept(history) == history

undo_history(history) ==
    IF history # <<>> THEN SubSeq(history, 1, Len(history) - 1) ELSE history

\* _ClipboardHandler / _WindowsClipboardHandler copy() and cut(): whether the
\* handler writes the selection to GRID_CLIPBOARD. The Windows handler hands an
\* in-progress cell edit to the edit control instead; the base handler never asks.
handler_writes_clipboard(isnt, isediting) == ~(isnt /\ isediting)

\* ------------------------------------------------------------ bookkeeping
NoSeen == [g |-> EmptyGrid, tl |-> Cell(0, 0), br |-> Cell(0, 0)]
Seen == [g |-> cells, tl |-> topleft, br |-> bottomright]
NoEvent == [selecting |-> FALSE, rows |-> <<>>, tl |-> Cell(0, 0), br |-> Cell(0, 0)]
Op(name) == [op |-> name, ev |-> NoEvent, wasEditing |-> editing]

\* What grid.SelectedRows can hold: distinct row indices, in the order the rows
\* were selected (the toolkit appends a row when it is selected).
SelectedRowsLists ==
    {s \in UNION {[1 .. n -> Rows] : n \in 0 .. NumberRows} :
        \A i, j \in DOMAIN s : i # j => s[i] # s[j]}

\* ------------------------------------------------------------------ text
\* Python string methods over sequences of one-character strings.
Whitespace == {" ", "\t", "\n", "\r"}

RECURSIVE lstrip(_)
lstrip(s) == IF s # <<>> /\ Head(s) \in Whitespace THEN lstrip(Tail(s)) ELSE s

RECURSIVE rstrip(_)
rstrip(s) ==
    IF s # <<>> /\ s[Len(s)] \in Whitespace THEN rstrip(SubSeq(s, 1, Len(s) - 1)) ELSE s

strip(s) == lstrip(rstrip(s))

startswith(s, prefix) ==
    Len(s) >= Len(prefix) /\ SubSeq(s, 1, Len(prefix)) = prefix

endswith(s, suffix) ==
    Len(s) >= Len(suffix) /\ SubSeq(s, Len(s) - Len(suffix) + 1, Len(s)) = suffix

\* The index of the first occurrence of sep in s at or after i, 0 when none.
RECURSIVE find(_, _, _)
find(s, sep, i) ==
    IF i + Len(sep) - 1 > Len(s) THEN 0
    ELSE IF SubSeq(s, i, i + Len(sep) - 1) = sep THEN i
    ELSE find(s, sep, i + 1)

\* s.split(sep): always at least one piece.
RECURSIVE split(_, _)
split(s, sep) ==
    LET k == find(s, sep, 1)
    IN IF k = 0 THEN <<s>>
       ELSE <<SubSeq(s, 1, k - 1)>> \o split(SubSeq(s, k + Len(sep), Len(s)), sep)

\* s.split(sep, 1): at most one cut.
split1(s, sep) ==
    LET k == find(s, sep, 1)
    IN IF k = 0 THEN <<s>>
       ELSE <<SubSeq(s, 1, k - 1), SubSeq(s, k + Len(sep), Len(s))>>

\* sep.join(pieces)
RECURSIVE join(_, _)
join(sep, pieces) ==
    IF pieces = <<>> THEN <<>>
    ELSE IF Len(pieces) = 1 THEN pieces[1]
    ELSE pieces[1] \o sep \o join(sep, Tail(pieces))

\* s.replace(ch, '') for a one-character ch.
RECURSIVE remove(_, _)
remove(s, ch) ==
    IF s = <<>> THEN <<>>
    ELSE IF Head(s) = ch THEN remove(Tail(s), ch)
    ELSE <<Head(s)>> \o remove(Tail(s), ch)

\* data.splitlines(): cut at every line break, no empty last line.
RECURSIVE splitlines(_)
splitlines(s) ==
    IF s = <<>> THEN <<>>
    ELSE LET k == find(s, <<"\n">>, 1)
         IN IF k = 0 THEN <<s>>
            ELSE <<SubSeq(s, 1, k - 1)>> \o splitlines(SubSeq(s, k + 1, Len(s)))

\* ------------------------------------------------------------ actioninfo
\* menu is None until a header line is seen.
NoMenu == [none |-> TRUE, text |-> <<>>]
Menu(t) == [none |-> FALSE, text |-> t]

\* Shortcut(e).printable: the token as the platform prints it. A Mac shows the
\* command key for Ctrl (here "^" becomes "#"); elsewhere the token is unchanged.
printable(e, ismac) ==
    [i \in DOMAIN e |-> IF ismac /\ e[i] = "^" THEN "#" ELSE e[i]]

SeparatorInfo(menu_name) ==
    [kind |-> "separator", menu_name |-> menu_name, name |-> <<>>, action |-> <<>>,
     container |-> "None", shortcut |-> <<>>, icon |-> <<>>, doc |-> <<>>]

ActionInfo(menu_name, name, action, cont, shortcut, icon, doc) ==
    [kind |-> "action", menu_name |-> menu_name, name |-> name, action |-> action,
     container |-> cont, shortcut |-> shortcut, icon |-> icon, doc |-> doc]

\* _parse_shortcuts_from_name with the base name trimmed before it is shown.
parse_shortcuts_trimmed(name, ismac) ==
    IF find(name, <<"(">>, 1) # 0
    THEN LET parts == split1(name, <<"(">>)
             shortcuts == split(parts[2], <<")">>)[1]
             elements == split(shortcuts, <<" ", "o", "r", " ">>)
             shown == [k \in DOMAIN elements |-> printable(elements[k], ismac)]
         IN <<parts[1],
              strip(parts[1]) \o <<" ", "(">>
                  \o join(<<" ", "o", "r", " ">>, shown) \o <<")">> >>
    ELSE <<name, name>>

\* <<eventhandler_name, name>>
_parse_shortcuts_from_name(name, ismac) ==
    IF find(name, <<"(">>, 1) # 0
    THEN LET parts == split1(name, <<"(">>)
             eventhandler_name == parts[1]
             shortcuts == split(parts[2], <<")">>)[1]
             elements == split(shortcuts, <<" ", "o", "r", " ">>)
             shown == [k \in DOMAIN elements |-> printable(elements[k], ismac)]
         IN <<eventhandler_name,
              eventhandler_name \o <<" ", "(">>
                  \o join(<<" ", "o", "r", " ">>, shown) \o <<")">> >>
    ELSE <<name, name>>

_get_eventhandler_name_and_parsed_name(name, ismac) ==
    LET parsed == _parse_shortcuts_from_name(name, ismac)
    IN << <<"O", "n">> \o remove(remove(parsed[1], " "), "&"), parsed[2] >>

\* tokens += [''] * (4 - len(tokens))
pad4(tokens) == tokens \o [k \in 1 .. (IF Len(tokens) < 4 THEN 4 - Len(tokens) ELSE 0) |-> <<>>]

\* action_container without "container = None".
action_container_kept(name, cont) == cont

\* The container _create_action_info passes on for a name field.
action_container(name, cont) == IF startswith(name, <<"!">>) THEN "None" ELSE cont

\* The name field with its '!' mark taken off.
action_name(name) == IF startswith(name, <<"!">>) THEN Tail(name) ELSE name

\* The lookup put off until the action is invoked.
hasattr_deferred(handler, eventhandler_name) == TRUE

\* Whether getattr(eventhandler, eventhandler_name) finds the attribute.
hasattr(handler, eventhandler_name) == eventhandler_name \in handler

\* The attributes of the wx module that name an icon.
WxNames == { <<"A">> }

\* ActionInfo._get_icon for the icon field of a line: getattr(wx, icon) finds
\* the name or raises.
icon_known(icon) == icon = <<>> \/ icon \in WxNames

\* _create_action_info: [raised |-> the exception or "", info |-> the descriptor]
_create_action_info(handler, menu_name, cont, row, ismac) ==
    IF startswith(row, <<"-", "-", "-">>)
    THEN [raised |-> "", info |-> SeparatorInfo(menu_name)]
    ELSE LET pieces == split(row, <<"|">>)
             tokens == pad4([k \in DOMAIN pieces |-> strip(pieces[k])])
         IN IF Len(tokens) # 4
            THEN [raised |-> "ValueError", info |-> SeparatorInfo(menu_name)]
            ELSE LET named == _get_eventhandler_name_and_parsed_name(
                                  action_name(tokens[1]), ismac)
                 IN IF ~hasattr(handler, named[1]) \/ ~icon_known(tokens[4])
                    THEN [raised |-> "AttributeError", info |-> SeparatorInfo(menu_name)]
                    ELSE [raised |-> "",
                          info |-> ActionInfo(menu_name, named[2], named[1],
                                              action_container(tokens[1], cont),
                                              tokens[3], tokens[4], tokens[2])]

\* is_menu_row without the test of the closing bracket.
is_menu_row_open(row) == startswith(row, <<"[">>)

\* row.startswith('[') and row.endswith(']')
is_menu_row(row) == startswith(row, <<"[">>) /\ endswith(row, <<"]">>)

\* menu_of without the strip() of the inner text.
menu_of_untrimmed(row) == SubSeq(row, 2, Len(row) - 1)

\* row[1:-1].strip()
menu_of(row) == strip(SubSeq(row, 2, Len(row) - 1))

\* --------------------------------------------------------- _InsertionPoint
\* An optional text: None, or a string.
NoName == [none |-> TRUE, text |-> <<>>]
Name(t) == [none |-> FALSE, text |-> t]

\* Python's "a or b" over optional texts: None and '' are false.
py_or(a, b) == IF a.none \/ a.text = <<>> THEN b ELSE a

Upper == <<"A", "B", "C", "D", "E", "F", "G", "H", "I", "J", "K", "L", "M",
           "N", "O", "P", "Q", "R", "S", "T", "U", "V", "W", "X", "Y", "Z">>
Lower == <<"a", "b", "c", "d", "e", "f", "g", "h", "i", "j", "k", "l", "m",
           "n", "o", "p", "q", "r", "s", "t", "u", "v", "w", "x", "y", "z">>

\* s.lower()
lower(s) ==
    [i \in DOMAIN s |->
        IF \E k \in DOMAIN Upper : Upper[k] = s[i]
        THEN Lower[CHOOSE k \in DOMAIN Upper : Upper[k] = s[i]]
        ELSE s[i]]

\* _shortcut_remover.split(label)[0], the pattern being ' {2,}\([^()]+\)$': a
\* label that ends with two or more spaces and one parenthesized text loses
\* both; any other label is returned whole.
_get_menu_item_name(label) ==
    LET n == Len(label)
        opens == {k \in 1 .. n : label[k] = "("}
    IN IF n >= 5 /\ label[n] = ")" /\ opens # {}
       THEN LET q == CHOOSE k \in opens : \A m \in opens : m <= k
            IN IF /\ q >= 3 /\ q <= n - 2
                  /\ \A k \in (q + 1) .. (n - 1) : label[k] # ")"
                  /\ label[q - 1] = " " /\ label[q - 2] = " "
               THEN LET start == CHOOSE b \in 1 .. (q - 2) :
                                     /\ \A k \in b .. (q - 1) : label[k] = " "
                                     /\ b = 1 \/ label[b - 1] # " "
                    IN SubSeq(label, 1, start - 1)
               ELSE label
       ELSE label

\* _find_position_in_menu: the position (from 0) of the first item whose name is
\* the wanted one, letter case aside; -1 stands for None.
_find_position_in_menu(items, item) ==
    LET hits == {i \in 0 .. (Len(items) - 1) :
                    lower(_get_menu_item_name(items[i + 1])) = lower(item.text)}
    IN IF hits = {} THEN -1 ELSE CHOOSE i \in hits : \A j \in hits : i <= j

\* get_index(menu): "not index" holds for None and for 0.
get_index(items, item, insert_before) ==
    IF item.none \/ item.text = <<>> THEN Len(items)
    ELSE LET found == _find_position_in_menu(items, item)
         IN IF found = -1 \/ found = 0 THEN Len(items)
            ELSE IF ~insert_before THEN found + 1 ELSE found

\* ------------------------------------------------------------------- Init
\* The editor as constructed: an empty grid, the rectangle on cell (0, 0), no
\* history; the shared slot holds whatever was put there before.
InitGrid ==
    /\ cells = EmptyGrid
    /\ topleft = Cell(0, 0)
    /\ bottomright = Cell(0, 0)
    /\ _edit_history = <<>>
    /\ GRID_CLIPBOARD \in {None, Str(""), Str("a")}
    /\ editing = FALSE
    /\ nt \in BOOLEAN
    /\ last = [op |-> "init", ev |-> NoEvent, wasEditing |-> FALSE]
    /\ seq = ""
    /\ seen = NoSeen

\* No call of ActionInfoCollection under way.
ParseIdle ==
    /\ data = <<>>
    /\ event_handler = {}
    /\ container = "None"
    /\ mac = FALSE
    /\ rows = <<>>
    /\ menu = NoMenu
    /\ actions = <<>>
    /\ pc = "idle"
    /\ raised = ""
    /\ lines = <<>>

\* MenuInfo.__init__: the default _InsertionPoint(), and no menu asked yet.
MenuIdle ==
    /\ menuitems = <<>>
    /\ _item = NoName
    /\ _insert_before = FALSE
    /\ index = -1

Init == InitGrid /\ ParseIdle /\ MenuIdle

\* ---------------------------------------------------------------- actions
\* EVT_GRID_SELECT_CELL at (row, col). With record, the event is kept in last.
select_cell(record) ==
    \E row \in Rows, col \in Cols :
        /\ topleft' = set_from_single_selection(topleft, row, col)[1]
        /\ bottomright' = set_from_single_selection(topleft, row, col)[2]
        /\ last' = IF record
                   THEN [Op("OnSelectCell") EXCEPT !.ev.tl = Cell(row, col),
                                                   !.ev.br = Cell(row, col)]
                   ELSE Op("OnSelectCell")
        /\ seq' = IF seq = "copy" /\ ~editing THEN "copy_select" ELSE ""
        /\ seen' = IF seq = "copy" /\ ~editing THEN seen ELSE NoSeen
        /\ UNCHANGED <<cells, _edit_history, GRID_CLIPBOARD, editing, nt, parseVars, menuVars>>

\* EVT_GRID_RANGE_SELECT: the toolkit reports a block with its top-left corner
\* not below or right of its bottom-right one, and grid.SelectedRows holds the
\* whole rows selected so far. With record, the event is kept in last.
range_select(record) ==
    \E selecting \in BOOLEAN, SelectedRows \in SelectedRowsLists,
       evtl \in Coords, evbr \in Coords :
        /\ evtl.row <= evbr.row /\ evtl.col <= evbr.col
        /\ IF selecting
           THEN LET b == _get_bounding_coordinates(SelectedRows, evtl, evbr)
                IN topleft' = b[1] /\ bottomright' = b[2]
           ELSE UNCHANGED <<topleft, bottomright>>
        /\ last' = IF record
                   THEN [Op("OnRangeSelect") EXCEPT
                            !.ev = [selecting |-> selecting, rows |-> SelectedRows,
                                    tl |-> evtl, br |-> evbr]]
                   ELSE Op("OnRangeSelect")
        /\ seq' = "" /\ seen' = NoSeen
        /\ UNCHANGED <<cells, _edit_history, GRID_CLIPBOARD, editing, nt, parseVars, menuVars>>

OnSelectCell == select_cell(FALSE)

OnRangeSelect == range_select(FALSE)

OnSelectCellEvent == select_cell(TRUE)

OnRangeSelectEvent == range_select(TRUE)

copy ==
    /\ GRID_CLIPBOARD' =
          IF handler_writes_clipboard(nt, editing)
          THEN set_contents(get_selected_content(cells, topleft, bottomright))
          ELSE GRID_CLIPBOARD
    /\ last' = Op("copy")
    /\ seq' = IF editing THEN "" ELSE "copy"
    /\ seen' = IF editing THEN NoSeen ELSE Seen
    /\ UNCHANGED <<cells, topleft, bottomright, _edit_history, editing, nt, parseVars, menuVars>>

cut ==
    /\ GRID_CLIPBOARD' =
          IF handler_writes_clipboard(nt, editing)
          THEN set_contents(get_selected_content(cells, topleft, bottomright))
          ELSE GRID_CLIPBOARD
    /\ cells' = _clear_selected_cells(cells, topleft, bottomright)
    /\ last' = Op("cut")
    /\ seq' = IF editing THEN "" ELSE "cut"
    /\ seen' = IF editing THEN NoSeen ELSE Seen
    /\ UNCHANGED <<topleft, bottomright, _edit_history, editing, nt, parseVars, menuVars>>

delete ==
    /\ cells' = IF editing THEN cells
                ELSE _clear_selected_cells(cells, topleft, bottomright)
    /\ last' = Op("delete")
    /\ seq' = "" /\ seen' = NoSeen
    /\ UNCHANGED <<topleft, bottomright, _edit_history, GRID_CLIPBOARD, editing, nt, parseVars, menuVars>>

paste ==
    /\ cells' = IF editing THEN cells
                ELSE paste_cells(cells, get_contents(GRID_CLIPBOARD), topleft)
    /\ last' = Op("paste")
    /\ seq' = IF seq = "copy_select" /\ ~editing THEN "copy_select_paste" ELSE ""
    /\ seen' = IF seq = "copy_select" /\ ~editing THEN seen ELSE NoSeen
    /\ UNCHANGED <<topleft, bottomright, _edit_history, GRID_CLIPBOARD, editing, nt, parseVars, menuVars>>

undo ==
    /\ cells' = undo_cells(cells, _edit_history)
    /\ _edit_history' = undo_history(_edit_history)
    /\ last' = Op("undo")
    /\ seq' = IF seq = "cut" /\ ~editing THEN "cut_undo" ELSE ""
    /\ seen' = IF seq = "cut" /\ ~editing THEN seen ELSE NoSeen
    /\ UNCHANGED <<topleft, bottomright, GRID_CLIPBOARD, editing, nt, parseVars, menuVars>>

\* self._save_keywords(append_to_history=True), as the editor built on GridEditor
\* calls it: the full grid content is pushed onto the edit history.
save_keywords(depth) ==
    /\ Len(_edit_history) < depth
    /\ _edit_history' = Append(_edit_history, cells)
    /\ last' = Op("_save_keywords")
    /\ seq' = "" /\ seen' = NoSeen
    /\ UNCHANGED <<cells, topleft, bottomright, GRID_CLIPBOARD, editing, nt, parseVars, menuVars>>

_save_keywords == save_keywords(MaxHistory)

\* The same with a deeper history.
SaveKeywords == save_keywords(MaxDepth)

\* The user opens the in-place editor of the active cell.
EnableCellEditControl ==
    /\ ~editing
    /\ editing' = TRUE
    /\ last' = Op("EnableCellEditControl")
    /\ seq' = "" /\ seen' = NoSeen
    /\ UNCHANGED <<cells, topleft, bottomright, _edit_history, GRID_CLIPBOARD, nt, parseVars, menuVars>>

\* The in-place editor closes and the toolkit stores its text in the active cell.
DisableCellEditControl ==
    \E value \in Values :
        /\ editing
        /\ editing' = FALSE
        /\ cells' = SetCellValue(cells, topleft.row, topleft.col, value)
        /\ last' = Op("DisableCellEditControl")
        /\ seq' = "" /\ seen' = NoSeen
        /\ UNCHANGED <<topleft, bottomright, _edit_history, GRID_CLIPBOARD, nt, parseVars, menuVars>>

Next ==
    \/ OnSelectCell
    \/ OnRangeSelect
    \/ copy
    \/ cut
    \/ delete
    \/ paste
    \/ undo
    \/ EnableCellEditControl
    \/ DisableCellEditControl

Spec == Init /\ [][Next]_vars

\* The editor with its history in use: snapshots are pushed and undone.
NextUndo ==
    \/ OnSelectCell
    \/ OnRangeSelect
    \/ copy
    \/ cut
    \/ delete
    \/ paste
    \/ undo
    \/ _save_keywords

InitUndo == Init /\ GRID_CLIPBOARD = Str("a") /\ nt = FALSE

SpecUndo == InitUndo /\ [][NextUndo]_vars

\* The history at depth: single cells are pasted to and deleted between
\* snapshots and undos.
NextHist ==
    \/ OnSelectCell
    \/ paste
    \/ delete
    \/ undo
    \/ SaveKeywords

SpecHist == InitUndo /\ [][NextHist]_vars

\* The selection rectangle under every select event, the events kept in last.
NextSel ==
    \/ OnSelectCellEvent
    \/ OnRangeSelectEvent

InitSel == Init /\ GRID_CLIPBOARD = None /\ nt = FALSE

SpecSel == InitSel /\ [][NextSel]_vars

\* ----------------------------------------------------- ActionInfoCollection
\* The lines texts are written from.
LinePool == {
    <<>>,
    <<" ">>,
    <<" ", "[", " ", "F", " ", "]">>,
    <<"-", "-", "-">>,
    <<"S">>,
    <<"!", "S">>,
    <<"&", "S", " ", "T", "|", "d">>,
    <<"S", " ", "(", "^", "x", " ", "o", "r", " ", "y", ")", "|", "d">>,
    <<"!", "S", "(", "y", ")">>,
    <<"S", "|", "d", "|", "k", "|", "A">>,
    <<"S", "|", "|", "|", "i">>,
    <<"S", "|", "d", "|", "k", "|", "A", "|", "e">>,
    <<"[", "S">>,
    <<"[", "]">>,
    <<"U">> }

\* The handler object: it has OnS, OnST and On[S, and no OnU.
Handler == { <<"O", "n", "S">>, <<"O", "n", "S", "T">>, <<"O", "n", "[", "S">> }

\* The longest text, in lines.
MaxLines == 3

InitParse ==
    /\ InitGrid /\ GRID_CLIPBOARD = None /\ nt = FALSE
    /\ lines \in UNION {[1 .. n -> LinePool] : n \in 0 .. MaxLines}
    /\ data = join(<<"\n">>, lines)
    /\ event_handler = Handler
    /\ container \in {"None", "frame"}
    /\ mac \in BOOLEAN
    /\ rows = <<>>
    /\ menu = NoMenu
    /\ actions = <<>>
    /\ pc = "idle"
    /\ raised = ""
    /\ MenuIdle

\* ActionInfoCollection is called: lines 103-105.
Call ==
    /\ pc = "idle"
    /\ rows' = splitlines(data)
    /\ menu' = NoMenu
    /\ actions' = <<>>
    /\ pc' = "scan"
    /\ UNCHANGED <<data, event_handler, container, mac, raised, lines, gridVars, ghostVars, menuVars>>

\* One turn of the for loop: lines 105-113.
ScanRow ==
    /\ pc = "scan"
    /\ rows # <<>>
    /\ rows' = Tail(rows)
    /\ LET row == strip(Head(rows))
       IN IF row = <<>>
          THEN UNCHANGED <<menu, actions, pc, raised>>
          ELSE IF is_menu_row(row)
          THEN menu' = Menu(menu_of(row)) /\ UNCHANGED <<actions, pc, raised>>
          ELSE LET made == _create_action_info(event_handler, menu, container, row, mac)
               IN IF made.raised # ""
                  THEN pc' = "raised" /\ raised' = made.raised
                       /\ UNCHANGED <<menu, actions>>
                  ELSE actions' = Append(actions, made.info)
                       /\ UNCHANGED <<menu, pc, raised>>
    /\ UNCHANGED <<data, event_handler, container, mac, lines, gridVars, ghostVars, menuVars>>

\* return actions: line 114.
Return ==
    /\ pc = "scan"
    /\ rows = <<>>
    /\ pc' = "returned"
    /\ UNCHANGED <<data, event_handler, container, mac, rows, menu, actions, raised,
                   lines, gridVars, ghostVars, menuVars>>

NextParse ==
    \/ Call
    \/ ScanRow
    \/ Return

SpecParse == InitParse /\ [][NextParse]_vars

\* ------------------------------------------------------------ menu position
\* The labels a menu's items carry: plain, with a shortcut after two spaces, and
\* with a parenthesized text after one space (which is part of the name).
Labels == {
    <<"S">>,
    <<"s", " ", " ", "(", "x", ")">>,
    <<"T">>,
    <<"T", " ", "(", "x", ")">> }

\* The sibling names a caller asks for.
ItemNames == { <<>>, <<"s">>, <<"T">>, <<"U">> }

\* The longest menu, in items.
MaxItems == 3

InitMenu ==
    /\ InitGrid /\ GRID_CLIPBOARD = None /\ nt = FALSE
    /\ ParseIdle
    /\ menuitems \in UNION {[1 .. n -> Labels] : n \in 0 .. MaxItems}
    /\ _item = NoName
    /\ _insert_before = FALSE
    /\ index = -1

\* MenuInfo.set_menu_position(before, after): a new _InsertionPoint.
set_menu_position ==
    \E before \in {NoName} \cup {Name(t) : t \in ItemNames},
       after \in {NoName} \cup {Name(t) : t \in ItemNames} :
        /\ _item' = py_or(before, after)
        /\ _insert_before' = ~before.none
        /\ index' = -1
        /\ last' = Op("set_menu_position")
        /\ UNCHANGED <<menuitems, seq, seen, gridVars, parseVars>>

\* insertion_point.get_index(menu), as the menu-building code calls it.
GetIndex ==
    /\ index' = get_index(menuitems, _item, _insert_before)
    /\ last' = Op("get_index")
    /\ UNCHANGED <<menuitems, _item, _insert_before, seq, seen, gridVars, parseVars>>

NextMenu ==
    \/ set_menu_position
    \/ GetIndex

SpecMenu == InitMenu /\ [][NextMenu]_vars

\* ================================================================= claims
\* ---- the grid editor

Rect(tl, br) == {<<i, j>> : i \in 0 .. (br.row - tl.row), j \in 0 .. (br.col - tl.col)}

\* C1: with no cell being edited, cut() followed by undo() leaves every cell of
\* the grid equal to its value before the cut.
CutThenUndoRestores ==
    seq = "cut_undo" => \A p \in Rows \X Cols : cells[p] = seen.g[p]

\* C2: with no cell being edited, after selecting a rectangle R, copy(), selecting
\* a single cell (r, c) and paste(), for every offset (i, j) of R the grid cell
\* (r+i, c+j) holds the value that cell (R.top+i, R.left+j) had at the copy.
CopyPasteRoundTrip ==
    seq = "copy_select_paste" =>
        \A o \in Rect(seen.tl, seen.br) :
            InGrid(topleft.row + o[1], topleft.col + o[2]) =>
                cells[<<topleft.row + o[1], topleft.col + o[2]>>]
                    = seen.g[<<seen.tl.row + o[1], seen.tl.col + o[2]>>]

\* A round trip whose target overlaps R: a non-empty value lands on a cell of R
\* that was empty at the copy.
CopyPasteRoundTripWitness ==
    /\ seq = "copy_select_paste"
    /\ topleft # seen.tl
    /\ \E o \in Rect(seen.tl, seen.br) :
          LET t == <<topleft.row + o[1], topleft.col + o[2]>>
          IN /\ InGrid(t[1], t[2])
             /\ t[1] <= seen.br.row /\ t[2] <= seen.br.col
             /\ seen.g[<<seen.tl.row + o[1], seen.tl.col + o[2]>>] = "a"
             /\ seen.g[t] = ""
             /\ cells[t] = "a"

\* C3: in every reachable state the selection rectangle has topleft.row <=
\* bottomright.row and topleft.col <= bottomright.col.
SelectionOrdered ==
    topleft.row <= bottomright.row /\ topleft.col <= bottomright.col

\* C6: undo() with an empty edit history leaves every grid cell, the selection
\* rectangle, the clipboard and the (empty) history unchanged.
UndoOnEmptyHistory ==
    [][(last'.op = "undo" /\ _edit_history = <<>>) =>
            /\ cells' = cells
            /\ topleft' = topleft /\ bottomright' = bottomright
            /\ GRID_CLIPBOARD' = GRID_CLIPBOARD
            /\ _edit_history' = <<>>]_vars

\* undo() was called with no history on a grid that holds text.
UndoOnEmptyHistoryWitness ==
    last.op = "undo" /\ _edit_history = <<>> /\ cells # EmptyGrid

\* C7: paste() with an empty or absent clipboard (None, '' or []) changes no grid
\* cell, nor the selection rectangle, nor the edit history.
PasteEmptyClipboard ==
    [][(last'.op = "paste" /\ Falsy(GRID_CLIPBOARD)) =>
            /\ cells' = cells
            /\ topleft' = topleft /\ bottomright' = bottomright
            /\ _edit_history' = _edit_history]_vars

\* paste() was called with an empty clipboard on a cell that holds text, no cell
\* being edited.
PasteEmptyClipboardWitness ==
    /\ last.op = "paste" /\ ~last.wasEditing
    /\ Falsy(GRID_CLIPBOARD)
    /\ InGrid(topleft.row, topleft.col)
    /\ cells[<<topleft.row, topleft.col>>] = "a"

\* Rows a..b: consecutive row indices in rising order.
IsRowRun(s) == s # <<>> /\ \A k \in 1 .. (Len(s) - 1) : s[k + 1] = s[k] + 1

Ink(l) == SelectSeq(l, LAMBDA c : c \notin Whitespace)

IsBlankLine(l) == Ink(l) = <<>>

IsHeaderLine(l) == Len(Ink(l)) >= 2 /\ Ink(l)[1] = "[" /\ Ink(l)[Len(Ink(l))] = "]"

IsSeparatorLine(l) ==
    ~IsHeaderLine(l) /\ Len(strip(l)) >= 3 /\ SubSeq(strip(l), 1, 3) = <<"-", "-", "-">>

IsActionLine(l) == ~IsBlankLine(l) /\ ~IsHeaderLine(l) /\ ~IsSeparatorLine(l)

\* The lines that are neither blank nor a [header], top to bottom.
Entries == SelectSeq(lines, LAMBDA l : ~IsBlankLine(l) /\ ~IsHeaderLine(l))

FieldCount(l) == Cardinality({k \in DOMAIN l : l[k] = "|"}) + 1

\* The name field of an action line: the text before the first '|', trimmed.
NameField(l) ==
    LET bar == CHOOSE k \in 1 .. (Len(l) + 1) :
                   /\ k = Len(l) + 1 \/ l[k] = "|"
                   /\ \A m \in 1 .. (k - 1) : l[m] # "|"
    IN strip(SubSeq(l, 1, bar - 1))

IsGlobalName(nm) == nm # <<>> /\ nm[1] = "!"

\* The name field without its '!' mark.
Unmarked(nm) == IF IsGlobalName(nm) THEN SubSeq(nm, 2, Len(nm)) ELSE nm

HasParen(nm) == \E k \in DOMAIN nm : nm[k] = "("

FirstAt(nm, ch) == CHOOSE k \in DOMAIN nm : nm[k] = ch /\ \A m \in 1 .. (k - 1) : nm[m] # ch

\* The text before the first '(' of a name, as written.
BaseName(nm) == IF HasParen(nm) THEN SubSeq(nm, 1, FirstAt(nm, "(") - 1) ELSE nm

\* The text between the first '(' and the next ')' (or the end of the name).
Parenthesized(nm) ==
    LET rest == SubSeq(nm, FirstAt(nm, "(") + 1, Len(nm))
    IN IF \E k \in DOMAIN rest : rest[k] = ")"
       THEN SubSeq(rest, 1, FirstAt(rest, ")") - 1)
       ELSE rest

\* 'On' + the base name with spaces and '&' removed.
HandlerKey(nm) ==
    <<"O", "n">> \o SelectSeq(BaseName(Unmarked(nm)), LAMBDA c : c \notin {" ", "&"})

\* The shortcut tokens as shown: each rendered, joined by ' or ' as they were.
Rendered(text) == [k \in DOMAIN text |-> IF mac /\ text[k] = "^" THEN "#" ELSE text[k]]

\* The display name of a name field (its '!' mark taken off).
DisplayName(nm) ==
    IF HasParen(nm)
    THEN BaseName(nm) \o <<" ", "(">> \o Rendered(Parenthesized(nm)) \o <<")">>
    ELSE nm

\* The display name with the base name trimmed: "<base> (<tokens>)".
DisplayNameOneSpace(nm) ==
    IF HasParen(nm)
    THEN strip(BaseName(nm)) \o <<" ", "(">> \o Rendered(Parenthesized(nm)) \o <<")">>
    ELSE nm

Finished == pc \in {"returned", "raised"}

AllResolvable ==
    \A k \in DOMAIN lines :
        IsActionLine(lines[k]) => HandlerKey(NameField(lines[k])) \in event_handler

AllFourFields ==
    \A k \in DOMAIN lines : IsActionLine(lines[k]) => FieldCount(lines[k]) <= 4

\* The text after the third '|' of a line of four fields, trimmed.
IconField(l) ==
    LET bars == {k \in DOMAIN l : l[k] = "|"}
        third == CHOOSE k \in bars : Cardinality({m \in bars : m < k}) = 2
    IN strip(SubSeq(l, third + 1, Len(l)))

AllIconsKnown ==
    \A k \in DOMAIN lines :
        (IsActionLine(lines[k]) /\ FieldCount(lines[k]) = 4) =>
            (IconField(lines[k]) = <<>> \/ IconField(lines[k]) \in WxNames)

\* The descriptors are those of the entries, one each, in the order of the lines.
OnePerEntry ==
    /\ pc = "returned"
    /\ Len(actions) = Len(Entries)
    /\ \A k \in DOMAIN actions :
          IF IsSeparatorLine(Entries[k])
          THEN actions[k].kind = "separator"
          ELSE /\ actions[k].kind = "action"
               /\ actions[k].action = HandlerKey(NameField(Entries[k]))

\* C4, as claimed: for every text whose action lines all have a resolvable
\* handler, the call returns one descriptor per line that is neither blank nor a
\* [header], in the order of the lines.
DescriptorPerLineClaimed == (Finished /\ AllResolvable) => OnePerEntry

\* C4, amended: the same for every text whose action lines all have a resolvable
\* handler, at most four '|'-separated fields and an icon field that is empty or
\* names an icon of the toolkit.
DescriptorPerLine ==
    (Finished /\ AllResolvable /\ AllFourFields /\ AllIconsKnown) => OnePerEntry

\* A text of a [header], a blank line and an action line was parsed.
DescriptorPerLineWitness ==
    /\ pc = "returned" /\ AllResolvable /\ AllFourFields /\ AllIconsKnown
    /\ Len(actions) = 1 /\ Len(lines) = 3
    /\ \E k \in DOMAIN lines : IsHeaderLine(lines[k])
    /\ \E k \in DOMAIN lines : IsBlankLine(lines[k])

\* C5: if the handler lacks the attribute of any action line, the call ends with
\* an error and returns nothing, even when earlier lines resolved; no descriptor
\* is ever made with an unresolved handler.
MissingHandlerFailsFast ==
    /\ (Finished /\ ~AllResolvable) => (pc = "raised" /\ raised # "")
    /\ \A k \in DOMAIN actions :
          actions[k].kind = "action" => actions[k].action \in event_handler

\* The call failed on a missing handler after an earlier line had resolved.
MissingHandlerFailsFastWitness ==
    /\ pc = "raised" /\ raised = "AttributeError"
    /\ ~AllResolvable /\ AllFourFields /\ AllIconsKnown
    /\ \E k \in DOMAIN actions : actions[k].kind = "action"

\* C9, as claimed: for a name with '(' the display name is the base name (as in
\* 'Content Assist'), one space, and the rendered tokens in parentheses; the
\* handler is looked up under 'On' + the base name without spaces and '&'.
ShortcutNameClaimed ==
    \A k \in DOMAIN actions :
        LET nm == Unmarked(NameField(Entries[k]))
        IN (actions[k].kind = "action" /\ HasParen(nm)) =>
              /\ actions[k].name = DisplayNameOneSpace(nm)
              /\ actions[k].action = HandlerKey(nm)

\* C9, amended: the display name is the text before '(' exactly as written (so a
\* space before '(' stays), then one space and the rendered tokens in
\* parentheses: 'Content Assist  (Ctrl-Space or Ctrl-Alt-Space)', two spaces.
ShortcutName ==
    \A k \in DOMAIN actions :
        LET nm == Unmarked(NameField(Entries[k]))
        IN (actions[k].kind = "action" /\ HasParen(nm)) =>
              /\ actions[k].name = DisplayName(nm)
              /\ actions[k].action = HandlerKey(nm)

\* 'S (^x or y) | d' was parsed for a Mac: shown as 'S  (#x or y)', found as OnS.
ShortcutNameWitness ==
    \E k \in DOMAIN actions :
        /\ actions[k].name = <<"S", " ", " ", "(", "#", "x", " ", "o", "r", " ", "y", ")">>
        /\ actions[k].action = <<"O", "n", "S">>

\* C10: a name field that starts with '!' gives container None whatever the
\* caller passed, and the '!' is in neither the display name nor the handler
\* key; any other action line gives the caller's container, also after a '!' line.
GlobalMark ==
    \A k \in DOMAIN actions :
        LET nm == NameField(Entries[k])
        IN actions[k].kind = "action" =>
              /\ actions[k].container = (IF IsGlobalName(nm) THEN "None" ELSE container)
              /\ actions[k].name = DisplayName(Unmarked(nm))
              /\ actions[k].action = HandlerKey(nm)

\* '!S' and then 'S' were parsed with a container given: None, then the container.
GlobalMarkWitness ==
    /\ pc = "returned" /\ container = "frame" /\ Len(actions) = 2
    /\ IsGlobalName(NameField(Entries[1])) /\ actions[1].container = "None"
    /\ ~IsGlobalName(NameField(Entries[2])) /\ actions[2].container = "frame"

\* The line of the text the k-th entry stands on.
EntryLine(k) ==
    CHOOSE i \in DOMAIN lines :
        /\ ~IsBlankLine(lines[i]) /\ ~IsHeaderLine(lines[i])
        /\ Cardinality({m \in 1 .. i : ~IsBlankLine(lines[m]) /\ ~IsHeaderLine(lines[m])}) = k

\* The text between the brackets of a [header] line, trimmed.
HeaderText(l) == strip(SubSeq(strip(l), 2, Len(strip(l)) - 1))

\* The menu a line stands under: that of the nearest [header] above it, None
\* when there is none.
MenuAbove(i) ==
    LET hs == {j \in 1 .. (i - 1) : IsHeaderLine(lines[j])}
    IN IF hs = {} THEN NoMenu
       ELSE Menu(HeaderText(lines[CHOOSE j \in hs : \A m \in hs : m <= j]))

\* C11: every descriptor (action or separator) has menu_name equal to the trimmed
\* inner text of the most recent [header] line above its own line, None when no
\* header precedes it; a line starting with '---' gives a separator descriptor
\* carrying that menu name.
MenuInheritance ==
    \A k \in DOMAIN actions :
        /\ actions[k].menu_name = MenuAbove(EntryLine(k))
        /\ IsSeparatorLine(Entries[k]) => actions[k].kind = "separator"

\* '---', ' [ F ]', '---' was parsed: a separator under no menu, then one under F.
MenuInheritanceWitness ==
    /\ pc = "returned" /\ Len(actions) = 2
    /\ actions[1].kind = "separator" /\ actions[1].menu_name = NoMenu
    /\ actions[2].kind = "separator" /\ actions[2].menu_name = Menu(<<"F">>)

\* ---- the insertion point

\* The positions (from 0) of the items whose name, shortcut suffix stripped, is
\* the wanted one, letter case aside.
Siblings ==
    {i \in 0 .. (Len(menuitems) - 1) :
        lower(_get_menu_item_name(menuitems[i + 1])) = lower(_item.text)}

\* C12: for a menu of n entries and an insertion point set with before=X or
\* after=X, if some entry's name equals X case-insensitively, the first at
\* position i for any i in 0..n-1, get_index returns i for 'before' and i+1 for
\* 'after'; with no match or no sibling requested it returns n.
InsertionIndex ==
    last.op = "get_index" =>
        IF _item.none \/ _item.text = <<>> \/ Siblings = {}
        THEN index = Len(menuitems)
        ELSE LET i == CHOOSE i \in Siblings : \A j \in Siblings : i <= j
             IN index = (IF _insert_before THEN i ELSE i + 1)

\* ---- the grid editor, continued

\* C13: every destructive bulk edit with no cell being edited (cut, delete of the
\* selection, paste of a non-empty clipboard) pushes a snapshot of the full
\* pre-edit grid onto the edit history, which is then exactly one entry longer
\* with the pre-edit grid on top.
SnapshotBeforeEdit ==
    [][(/\ ~editing
        /\ \/ last'.op \in {"cut", "delete"}
           \/ last'.op = "paste" /\ ~Falsy(GRID_CLIPBOARD))
       => _edit_history' = Append(_edit_history, cells)]_vars

\* C14: while a cell is being edited in place, copy() and cut() change no cell
\* of the grid and do not write the shared clipboard slot, whichever clipboard
\* handler the platform gives.
EditingLeavesGridAlone ==
    [][(editing /\ last'.op \in {"copy", "cut"})
       => (cells' = cells /\ GRID_CLIPBOARD' = GRID_CLIPBOARD)]_vars

\* The values of the rectangle tl..br of grid g, row by row.
RowMajor(g, tl, br) ==
    [i \in 1 .. (IF br.row >= tl.row THEN br.row - tl.row + 1 ELSE 0) |->
        [j \in 1 .. (IF br.col >= tl.col THEN br.col - tl.col + 1 ELSE 0) |->
            g[<<tl.row + i - 1, tl.col + j - 1>>]]]

\* C15: with no cell being edited, after copy() the clipboard slot holds exactly
\* the row-major 2D sequence of the values of the cells in the selection
\* rectangle (one inner sequence per selected row, one value per selected
\* column), whatever it held before; a later copy() fully replaces it.
CopyRowMajor ==
    (last.op = "copy" /\ ~last.wasEditing) =>
        GRID_CLIPBOARD = List(RowMajor(cells, topleft, bottomright))

\* The whole grid was copied with text in its upper right cell only.
CopyRowMajorWitness ==
    /\ last.op = "copy" /\ ~last.wasEditing
    /\ topleft = Cell(0, 0) /\ bottomright = Cell(NumberRows - 1, NumberCols - 1)
    /\ cells[<<0, NumberCols - 1>>] = "a"
    /\ \A p \in Rows \X Cols : p # <<0, NumberCols - 1>> => cells[p] = ""
    /\ GRID_CLIPBOARD.kind = "list"
    /\ GRID_CLIPBOARD.list[1][NumberCols] = "a"

\* Whether cell p lies in the rectangle tl..br.
InRect(p, tl, br) ==
    p[1] >= tl.row /\ p[1] <= br.row /\ p[2] >= tl.col /\ p[2] <= br.col

\* C16: with no cell being edited, after cut() every cell inside the selection
\* rectangle is the empty string, every cell outside it is unchanged, and the
\* clipboard holds the values the selected cells had before the cut.
CutClearsSelection ==
    seq = "cut" =>
        /\ \A p \in Rows \X Cols :
              cells[p] = (IF InRect(p, topleft, bottomright) THEN "" ELSE seen.g[p])
        /\ GRID_CLIPBOARD = List(RowMajor(seen.g, topleft, bottomright))

\* A row of the grid that held text in two cells was cut, with text left outside.
CutClearsSelectionWitness ==
    /\ seq = "cut"
    /\ topleft = Cell(0, 0) /\ bottomright = Cell(0, NumberCols - 1)
    /\ \A c \in Cols : seen.g[<<0, c>>] = "a" /\ cells[<<0, c>>] = ""
    /\ cells[<<1, 0>>] = "a"
    /\ GRID_CLIPBOARD = List(<< [c \in 1 .. NumberCols |-> "a"] >>)

\* C17: with no cell being edited, delete() sets every cell of the selection
\* rectangle to the empty string and leaves the clipboard slot, the selection
\* rectangle and every cell outside the rectangle unchanged.
DeleteClearsSelection ==
    [][(last'.op = "delete" /\ ~editing) =>
          /\ cells' = [p \in Rows \X Cols |->
                          IF InRect(p, topleft, bottomright) THEN "" ELSE cells[p]]
          /\ GRID_CLIPBOARD' = GRID_CLIPBOARD
          /\ topleft' = topleft /\ bottomright' = bottomright]_vars

\* A single cell was deleted beside a cell of its row that holds text, the
\* clipboard holding a copied block.
DeleteClearsSelectionWitness ==
    /\ last.op = "delete" /\ ~last.wasEditing
    /\ topleft = Cell(0, 0) /\ bottomright = Cell(0, 0)
    /\ cells[<<0, 0>>] = "" /\ cells[<<0, 1>>] = "a"
    /\ GRID_CLIPBOARD.kind = "list" /\ GRID_CLIPBOARD.list = << <<"a">> >>

\* C18: when the edit history is non-empty, undo() removes exactly the most
\* recent snapshot (the history is one entry shorter, nothing is pushed back),
\* and afterwards every grid cell equals its value in the removed snapshot,
\* cells absent from the snapshot being empty.
UndoPopsAndRestores ==
    [][(last'.op = "undo" /\ _edit_history # <<>>) =>
          LET top == _edit_history[Len(_edit_history)]
          IN /\ _edit_history' = SubSeq(_edit_history, 1, Len(_edit_history) - 1)
             /\ \A p \in Rows \X Cols :
                   cells'[p] = (IF p \in DOMAIN top THEN top[p] ELSE "")]_vars

\* undo() took the newer of two snapshots: the grid now differs from the older
\* one, which is all the history still holds.
UndoPopsAndRestoresWitness ==
    /\ last.op = "undo"
    /\ Len(_edit_history) = 1
    /\ cells # _edit_history[1] /\ cells # EmptyGrid

\* The grid g with clipboard c pasted at cell tl: element [i][j] of a 2D
\* clipboard on cell (tl.row + i, tl.col + j), a scalar on cell tl.
Pasted(g, c, tl) ==
    [p \in Rows \X Cols |->
        IF c.kind = "list"
        THEN LET i == p[1] - tl.row + 1
                 j == p[2] - tl.col + 1
             IN IF i \in DOMAIN c.list /\ j \in DOMAIN c.list[i]
                THEN c.list[i][j] ELSE g[p]
        ELSE IF p = <<tl.row, tl.col>> THEN c.str ELSE g[p]]

\* C19: with no cell being edited, paste() of a 2D clipboard writes value [i][j]
\* to cell (top+i, left+j) from the selection's top-left cell for every element
\* (of those cells the grid has), also outside the selection rectangle; paste()
\* of a scalar writes only the top-left cell. Every other cell, the clipboard and
\* the selection rectangle are unchanged, and a second paste() in a row changes
\* nothing.
PasteWritesBlock ==
    [][/\ (last'.op = "paste" /\ ~editing /\ ~Falsy(GRID_CLIPBOARD)) =>
             /\ cells' = Pasted(cells, GRID_CLIPBOARD, topleft)
             /\ GRID_CLIPBOARD' = GRID_CLIPBOARD
             /\ topleft' = topleft /\ bottomright' = bottomright
       /\ (last.op = "paste" /\ ~last.wasEditing /\ last'.op = "paste" /\ ~editing) =>
             cells' = cells]_vars

\* A block of two rows and two columns was pasted with only cell (0, 0) selected,
\* and its last element is on cell (1, 1).
PasteWritesBlockWitness ==
    /\ last.op = "paste" /\ ~last.wasEditing
    /\ topleft = Cell(0, 0) /\ bottomright = Cell(0, 0)
    /\ GRID_CLIPBOARD.kind = "list" /\ Len(GRID_CLIPBOARD.list) = 2
    /\ GRID_CLIPBOARD.list[1] = <<"", "a">> /\ GRID_CLIPBOARD.list[2] = <<"", "a">>
    /\ cells[<<0, 0>>] = "" /\ cells[<<0, 1>>] = "a"
    /\ cells[<<1, 0>>] = "" /\ cells[<<1, 1>>] = "a"

\* C20: a single-cell-select event at (row, col) always sets the selection
\* rectangle to topleft = bottomright = (row, col), discarding any earlier
\* range; a range-select event whose Selecting() flag is false leaves the
\* selection rectangle exactly as it was.
SelectEvents ==
    [][/\ last'.op = "OnSelectCell" =>
             (topleft' = last'.ev.tl /\ bottomright' = last'.ev.tl)
       /\ (last'.op = "OnRangeSelect" /\ ~last'.ev.selecting) =>
             (topleft' = topleft /\ bottomright' = bottomright)]_vars

\* A single cell other than (0, 0) was selected, and then a deselection of a
\* block elsewhere arrived.
SelectEventsWitness ==
    /\ last.op = "OnRangeSelect" /\ ~last.ev.selecting
    /\ last.ev.rows = <<0>> /\ last.ev.tl = Cell(0, 0) /\ last.ev.br = Cell(0, 1)
    /\ topleft = Cell(1, 1) /\ bottomright = Cell(1, 1)

====
